---- MODULE Spec2Model ----
(***************************************************************************)
(* A model of hpo3, the Python binding of the hpo crate: the process-wide  *)
(* ontology cell, the HPOSet objects a caller holds, and the operations    *)
(* on them (construction, add, the transforms, serialisation, and the      *)
(* argument checks of the similarity, enrichment and linkage entry         *)
(* points).                                                                *)
(*                                                                         *)
(* Strings are sequences of one-character strings, so that formatting,     *)
(* splitting and parsing are computed and not assumed.                     *)
(***************************************************************************)
EXTENDS Integers, Sequences, FiniteSets, TLC

VARIABLES
    ONTOLOGY,   \* the OnceCell: Unset, or the ontology that was installed
    heap,       \* the HPOSet objects: whether each exists, and its ids
    ref,        \* the object each of the caller's handles refers to
    last,       \* the outcome of the most recent call
    model,      \* the EnrichmentModel the caller holds, if any
    batch,      \* the batch call that is running on the thread pool
    res,        \* the clustering that a linkage call is computing
    iters       \* the iterators the caller holds

vars == <<ONTOLOGY, heap, ref, last, model, batch, res, iters>>

\* the state of the statistics entry points
stats == <<model, batch, res, iters>>

----------------------------------------------------------------------------
(* Bounds *)

\* longest list of ids / terms / queries handed to a constructor
MaxIds == 2

\* add() is not called on a set that already has this many members
MaxSetLen == 2

----------------------------------------------------------------------------
(* The ontology that Ontology() installs: a small DAG with a modifier      *)
(* branch, the phenotype branch and four obsolete terms.                   *)

ROOT == 1

PHENOTYPIC_ABNORMALITY == 118

\* ids of the terms of the installed ontology
TermIds == {1, 3, 4, 6, 7, 8, 118, 152}

\* ids that are no term of the installed ontology
UnknownIds == {2}

\* direct parents; obsolete terms have no edges
parent_ids(t) ==
    CASE t = 7   -> {1}
      [] t = 118 -> {1}
      [] t = 152 -> {118}
      [] OTHER   -> {}

is_obsolete(t) == t \in {3, 4, 6, 8}

\* the replacement pointer of a term, 0 for none:
\* 3 -> 152, 4 -> 3 -> 152 (a chain), 8 -> 6 (bottoms out), 6 has none
replaced_by(t) ==
    CASE t = 3 -> 152
      [] t = 4 -> 3
      [] t = 8 -> 6
      [] OTHER -> 0

\* display names
name(t) ==
    CASE t = 1   -> <<"A", "l", "l">>
      [] t = 7   -> <<"A", "R">>
      [] t = 118 -> <<"P", "A">>
      [] t = 152 -> <<"H", "N">>
      [] t = 3   -> <<"o", "3">>
      [] t = 4   -> <<"o", "4">>
      [] t = 6   -> <<"o", "6">>
      [] OTHER   -> <<"o", "8">>

\* all ancestors of a term (without the term itself)
RECURSIVE all_parents(_)
all_parents(t) ==
    parent_ids(t) \cup UNION {all_parents(p) : p \in parent_ids(t)}

----------------------------------------------------------------------------
(* Strings *)

Digits == <<"0", "1", "2", "3", "4", "5", "6", "7", "8", "9">>

IsDigit(c) == \E i \in 1..10 : Digits[i] = c

DigitVal(c) == (CHOOSE i \in 1..10 : Digits[i] = c) - 1

\* u32::to_string
RECURSIVE to_string(_)
to_string(n) ==
    IF n < 10 THEN <<Digits[n + 1]>>
    ELSE to_string(n \div 10) \o <<Digits[(n % 10) + 1]>>

\* the value of a run of digits
RECURSIVE DigitsVal(_)
DigitsVal(s) ==
    IF s = <<>> THEN 0
    ELSE 10 * DigitsVal(SubSeq(s, 1, Len(s) - 1)) + DigitVal(s[Len(s)])

\* the decimal digits of u32::MAX
U32_MAX_DIGITS == <<"4", "2", "9", "4", "9", "6", "7", "2", "9", "5">>

\* a run of digits without its leading zeros
RECURSIVE strip_zeros(_)
strip_zeros(s) ==
    IF s # <<>> /\ s[1] = "0" THEN strip_zeros(Tail(s)) ELSE s

\* digit runs of equal length compared from the left
RECURSIVE digits_greater(_, _)
digits_greater(a, b) ==
    IF a = <<>> THEN FALSE
    ELSE IF DigitVal(a[1]) # DigitVal(b[1]) THEN DigitVal(a[1]) > DigitVal(b[1])
    ELSE digits_greater(Tail(a), Tail(b))

\* the number does not fit a u32
overflows(s) ==
    LET d == strip_zeros(s)
    IN  \/ Len(d) > Len(U32_MAX_DIGITS)
        \/ Len(d) = Len(U32_MAX_DIGITS) /\ digits_greater(d, U32_MAX_DIGITS)

\* str::parse::<u32>: an optional "+", then one or more digits, no overflow
parse_u32(s) ==
    LET body == IF s # <<>> /\ s[1] = "+" THEN Tail(s) ELSE s
    IN  IF body = <<>> \/ \E i \in 1..Len(body) : ~IsDigit(body[i])
        THEN [ok |-> FALSE, val |-> 0]
        ELSE IF overflows(body)
             THEN [ok |-> FALSE, val |-> 0]
             ELSE [ok |-> TRUE, val |-> DigitsVal(body)]

\* str::split(sep): the pieces between separators; "" gives one empty piece
RECURSIVE split(_, _)
split(s, sep) ==
    IF \A i \in 1..Len(s) : s[i] # sep THEN <<s>>
    ELSE LET k == CHOOSE i \in 1..Len(s) :
                     s[i] = sep /\ \A j \in 1..(i - 1) : s[j] # sep
         IN  <<SubSeq(s, 1, k - 1)>> \o split(SubSeq(s, k + 1, Len(s)), sep)

\* [String]::join(sep)
RECURSIVE join(_, _)
join(strs, sep) ==
    IF strs = <<>> THEN <<>>
    ELSE IF Len(strs) = 1 THEN strs[1]
    ELSE strs[1] \o <<sep>> \o join(Tail(strs), sep)

\* str::starts_with
starts_with(s, prefix) ==
    Len(s) >= Len(prefix) /\ SubSeq(s, 1, Len(prefix)) = prefix

\* Vec<u32>::sort: ascending, duplicates kept
RECURSIVE sort(_)
sort(v) ==
    IF v = <<>> THEN <<>>
    ELSE LET m == CHOOSE i \in 1..Len(v) : \A j \in 1..Len(v) : v[i] <= v[j]
         IN  <<v[m]>> \o sort(SubSeq(v, 1, m - 1) \o SubSeq(v, m + 1, Len(v)))

Range(s) == {s[i] : i \in 1..Len(s)}

----------------------------------------------------------------------------
(* The hpo crate: HpoGroup and HpoSet *)

\* HpoGroup::insert: the group is kept ascending and free of duplicates
HpoGroup_insert(g, x) ==
    IF x \in Range(g) THEN g
    ELSE SelectSeq(g, LAMBDA y : y < x) \o <<x>> \o SelectSeq(g, LAMBDA y : y > x)

\* collecting ids into an HpoGroup: one insert per id, in the order given
RECURSIVE HpoGroup_collect(_, _)
HpoGroup_collect(g, v) ==
    IF v = <<>> THEN g
    ELSE HpoGroup_collect(HpoGroup_insert(g, Head(v)), Tail(v))

\* Ontology::hpo(id) finds a term
ont_hpo(id) == id \in TermIds

\* HpoSet::child_nodes: keep t1 unless it is an ancestor of some member
HpoSet_child_nodes(g) ==
    SelectSeq(g, LAMBDA t1 : \A i \in 1..Len(g) : t1 \notin all_parents(g[i]))

\* the term an obsolete term is swapped for: the replacement pointer is
\* followed at most fuel times, while the term reached is obsolete and has a
\* replacement
RECURSIVE resolve(_, _)
resolve(t, fuel) ==
    IF is_obsolete(t) /\ replaced_by(t) # 0 /\ fuel > 0
    THEN resolve(replaced_by(t), fuel - 1)
    ELSE t

\* how far the crate follows replacement pointers: one step, or down to a
\* term that is not obsolete
ChaseDepths == {1, Cardinality(TermIds)}

\* HpoSet::replace_obsolete: every member is swapped for its replacement; a
\* member without replacement stays
HpoSet_replace_obsolete(g, depth) ==
    HpoGroup_collect(<<>>, [i \in 1..Len(g) |-> resolve(g[i], depth)])

\* HpoSet::remove_obsolete
HpoSet_remove_obsolete(g) == SelectSeq(g, LAMBDA t : ~is_obsolete(t))

\* the terms at the head of a modifier branch (here: the inheritance term)
ModifierRoots == {7}

\* which terms the crate takes for modifiers: all that are outside the
\* HP:0000118 branch, or those inside a modifier branch
ModifierRules == {"outside_phenotype", "modifier_branch"}

\* HpoSet::remove_modifier: the modifier terms are dropped
HpoSet_remove_modifier(g, rule) ==
    IF rule = "outside_phenotype"
    THEN SelectSeq(g, LAMBDA t : PHENOTYPIC_ABNORMALITY \in (all_parents(t) \cup {t}))
    ELSE SelectSeq(g, LAMBDA t : (all_parents(t) \cup {t}) \cap ModifierRoots = {})

\* HpoTermId::try_from(&str): the text after the three-character prefix
\* is read as a number
HpoTermId_try_from(s) ==
    IF Len(s) < 4 THEN [ok |-> FALSE, val |-> 0]
    ELSE parse_u32(SubSeq(s, 4, Len(s)))

----------------------------------------------------------------------------
(* lib.rs *)

\* the outcome of get_ontology()
\* the OnceCell before ONTOLOGY.set
Unset == [source |-> "unset", transitive |-> FALSE]

\* ONTOLOGY.get() is Some
built == ONTOLOGY # Unset

get_ontology == IF built THEN "Ok" ELSE "NameError"

\* the outcome of term_from_id(id)
term_from_id(id) ==
    IF get_ontology # "Ok" THEN get_ontology
    ELSE IF ont_hpo(id) THEN "Ok" ELSE "KeyError"

\* term_from_query: the outcome and the id of the term found
term_from_query(q) ==
    IF q.t = "Id"
    THEN [status |-> IF term_from_id(q.v) = "Ok" THEN "Ok" ELSE "RuntimeError",
          id |-> q.v]
    ELSE IF starts_with(q.s, <<"H", "P", ":">>)
         THEN LET termid == HpoTermId_try_from(q.s)
              IN  IF termid.ok
                  THEN [status |-> IF term_from_id(termid.val) = "Ok"
                                   THEN "Ok" ELSE "RuntimeError",
                        id |-> termid.val]
                  ELSE [status |-> "ValueError", id |-> 0]
         ELSE IF get_ontology # "Ok" THEN [status |-> get_ontology, id |-> 0]
         ELSE IF \E t \in TermIds : name(t) = q.s
              THEN [status |-> "Ok", id |-> CHOOSE t \in TermIds : name(t) = q.s]
              ELSE [status |-> "RuntimeError", id |-> 0]

----------------------------------------------------------------------------
(* set.rs: PyHpoSet *)

\* the data folders a caller may name: none (the built-in data), a folder
\* with the complete JAX files, one without genes_to_phenotype.txt, one
\* without hp.obo, one whose hp.obo is malformed, a binary dump, and a file
\* that is no binary dump
DataFolders ==
    {"", "jax", "no_genes", "no_obo", "bad_obo", "ontology.hpo", "bad.hpo"}

\* ActualOntology::from_standard / from_standard_transitive on a folder
from_standard(path, transitive) ==
    CASE path = "jax"      -> "Ok"
      [] path = "no_genes" -> IF transitive THEN "Ok" ELSE "CannotOpenFile_genes"
      [] path = "bad_obo"  -> "ParseError"
      [] OTHER             -> "CannotOpenFile"

\* ActualOntology::from_binary on a file
from_binary_ok(path) == path = "ontology.hpo"

\* the arguments name data an ontology can be built from
CanLoad(data_folder, from_obo_file, transitive) ==
    \/ data_folder = ""
    \/ from_obo_file /\ from_standard(data_folder, transitive) = "Ok"
    \/ ~from_obo_file /\ from_binary_ok(data_folder)

\* from_builtin
from_builtin == [source |-> "builtin", transitive |-> FALSE]

\* from_obo: the ontology read from the files of the folder
from_obo(path, transitive) == [source |-> path, transitive |-> transitive]

\* from_binary: unwrap() ends the call when the file cannot be read
from_binary(path) ==
    IF from_binary_ok(path)
    THEN [status |-> "Ok", cell |-> [source |-> path, transitive |-> FALSE]]
    ELSE [status |-> "Panic", cell |-> Unset]

\* PyOntology::__call__ without the test for an ontology built before
Ontology_call_rebuild(cell, data_folder, from_obo_file, transitive) ==
    IF data_folder = "" THEN [status |-> "Ok", cell |-> from_builtin]
    ELSE IF from_obo_file
    THEN CASE from_standard(data_folder, transitive) = "Ok"
                -> [status |-> "Ok", cell |-> from_obo(data_folder, transitive)]
           [] from_standard(data_folder, transitive) \in
                {"CannotOpenFile", "CannotOpenFile_genes"}
                -> [status |-> "FileNotFoundError", cell |-> cell]
           [] OTHER -> [status |-> "RuntimeError", cell |-> cell]
    ELSE IF from_binary(data_folder).status = "Ok"
         THEN from_binary(data_folder)
         ELSE [status |-> "Panic", cell |-> cell]

\* PyOntology::__call__: the outcome and the cell after the call
Ontology_call(cell, data_folder, from_obo_file, transitive) ==
    IF cell # Unset THEN [status |-> "Ok", cell |-> cell]
    ELSE IF data_folder = "" THEN [status |-> "Ok", cell |-> from_builtin]
    ELSE IF from_obo_file
    THEN CASE from_standard(data_folder, transitive) = "Ok"
                -> [status |-> "Ok", cell |-> from_obo(data_folder, transitive)]
           [] from_standard(data_folder, transitive) \in
                {"CannotOpenFile", "CannotOpenFile_genes"}
                -> [status |-> "FileNotFoundError", cell |-> Unset]
           [] OTHER -> [status |-> "RuntimeError", cell |-> Unset]
    ELSE from_binary(data_folder)

\* the loop of PyHpoSet::new: an integer is looked up before it is
\* inserted, a term object is inserted as it is
RECURSIVE new_loop(_, _)
new_loop(ids, terms) ==
    IF terms = <<>> THEN [status |-> "Ok", ids |-> ids]
    ELSE LET x == Head(terms)
         IN  IF x.t = "Id" /\ term_from_id(x.v) # "Ok"
             THEN [status |-> term_from_id(x.v), ids |-> <<>>]
             ELSE new_loop(HpoGroup_insert(ids, x.v), Tail(terms))

\* PyHpoSet::new
PyHpoSet_new(terms) == new_loop(<<>>, terms)

\* add without the lookup of the id
add_unchecked(ids, term) ==
    [status |-> "Ok", ids |-> HpoGroup_insert(ids, term.v)]

\* PyHpoSet::add on a set with members ids
add(ids, term) ==
    IF term.t = "Id" /\ term_from_id(term.v) # "Ok"
    THEN [status |-> term_from_id(term.v), ids |-> ids]
    ELSE [status |-> "Ok", ids |-> HpoGroup_insert(ids, term.v)]

\* From<HpoSet> for PyHpoSet: the ids of the terms, collected again
From_HpoSet(g) == HpoGroup_collect(<<>>, g)

\* child_nodes with the filter turned round: the ancestors are kept
child_nodes_ancestors(ids) ==
    IF get_ontology # "Ok" THEN [status |-> get_ontology, ids |-> <<>>]
    ELSE [status |-> "Ok",
          ids |-> From_HpoSet(SelectSeq(ids,
                    LAMBDA t1 : \E i \in 1..Len(ids) : t1 \in all_parents(ids[i])))]

\* child_nodes that looks one level up only
child_nodes_direct(ids) ==
    IF get_ontology # "Ok" THEN [status |-> get_ontology, ids |-> <<>>]
    ELSE [status |-> "Ok",
          ids |-> From_HpoSet(SelectSeq(ids,
                    LAMBDA t1 : \A i \in 1..Len(ids) : t1 \notin parent_ids(ids[i])))]

\* PyHpoSet::child_nodes
child_nodes(ids) ==
    IF get_ontology # "Ok" THEN [status |-> get_ontology, ids |-> <<>>]
    ELSE [status |-> "Ok", ids |-> From_HpoSet(HpoSet_child_nodes(ids))]

\* PyHpoSet::remove_modifier
remove_modifier(ids, rule) ==
    IF get_ontology # "Ok" THEN [status |-> get_ontology, ids |-> <<>>]
    ELSE [status |-> "Ok", ids |-> From_HpoSet(HpoSet_remove_modifier(ids, rule))]

\* replace_obsolete without the removal that follows the replacement
replace_obsolete_only(ids, depth) ==
    IF get_ontology # "Ok" THEN [status |-> get_ontology, ids |-> <<>>]
    ELSE [status |-> "Ok", ids |-> From_HpoSet(HpoSet_replace_obsolete(ids, depth))]

\* PyHpoSet::replace_obsolete
replace_obsolete(ids, depth) ==
    IF get_ontology # "Ok" THEN [status |-> get_ontology, ids |-> <<>>]
    ELSE [status |-> "Ok",
          ids |-> From_HpoSet(
                    HpoSet_remove_obsolete(HpoSet_replace_obsolete(ids, depth)))]

\* serialize with the order of the sort turned round
serialize_descending(ids) ==
    LET sorted == sort(ids)
        id_strings == [i \in 1..Len(sorted) |-> to_string(sorted[Len(sorted) + 1 - i])]
    IN  join(id_strings, "+")

\* PyHpoSet::serialize
serialize(ids) ==
    LET sorted == sort(ids)
        id_strings == [i \in 1..Len(sorted) |-> to_string(sorted[i])]
    IN  join(id_strings, "+")

\* the numbers of a serialized set, or a failure when a piece is no u32
parse_pickle(pickle) ==
    LET pieces == split(pickle, "+")
        parsed == [i \in 1..Len(pieces) |-> parse_u32(pieces[i])]
    IN  IF \E i \in 1..Len(parsed) : ~parsed[i].ok
        THEN [ok |-> FALSE, ids |-> <<>>]
        ELSE [ok |-> TRUE, ids |-> [i \in 1..Len(parsed) |-> parsed[i].val]]

\* the first failure of term_from_id over a list of ids, "Ok" for none
RECURSIVE lookup_all(_)
lookup_all(v) ==
    IF v = <<>> THEN "Ok"
    ELSE IF term_from_id(Head(v)) # "Ok" THEN term_from_id(Head(v))
    ELSE lookup_all(Tail(v))

\* PyHpoSet::terms: a term object for every member
PyHpoSet_terms(ids) == lookup_all(ids)

\* PyHpoSet::toJSON: a dict for every member
PyHpoSet_toJSON(ids) == lookup_all(ids)

\* a reader that turns the numbers into ids without looking them up
from_serialized_unchecked(pickle) ==
    LET nums == parse_pickle(pickle)
    IN  IF ~nums.ok THEN [status |-> "ValueError", ids |-> <<>>]
        ELSE [status |-> "Ok", ids |-> HpoGroup_collect(<<>>, nums.ids)]

\* PyHpoSet::from_serialized
from_serialized(pickle) ==
    LET nums == parse_pickle(pickle)
    IN  IF ~nums.ok THEN [status |-> "ValueError", ids |-> <<>>]
        ELSE IF lookup_all(nums.ids) # "Ok"
        THEN [status |-> lookup_all(nums.ids), ids |-> <<>>]
        ELSE [status |-> "Ok", ids |-> HpoGroup_collect(<<>>, nums.ids)]

\* the loop over the queries of from_queries: the ids found, or the first
\* failure
RECURSIVE query_loop(_, _)
query_loop(ids, queries) ==
    IF queries = <<>> THEN [status |-> "Ok", ids |-> ids]
    ELSE LET r == term_from_query(Head(queries))
         IN  IF r.status # "Ok" THEN [status |-> r.status, ids |-> <<>>]
             ELSE query_loop(Append(ids, r.id), Tail(queries))

\* PyHpoSet::from_queries
from_queries(queries) ==
    LET r == query_loop(<<>>, queries)
    IN  IF r.status # "Ok" THEN r
        ELSE [status |-> "Ok", ids |-> HpoGroup_collect(<<>>, r.ids)]

\* HpoSet is handed a group whose ids were never looked up: an id that is
\* no term of the ontology cannot be turned into a term by the crate
HpoSet_faults(g) == \E i \in 1..Len(g) : ~ont_hpo(g[i])

\* what the crate can do with such an id: end the call in a panic, or pass
\* over the id
LibraryFaults == {"panic", "skip"}

\* the behaviour of the crate that the bindings leave open
LibraryChoices == [fault : LibraryFaults, depth : ChaseDepths, rule : ModifierRules]

\* the ids of a group that are terms of the ontology
HpoSet_terms(g) == SelectSeq(g, LAMBDA x : ont_hpo(x))

\* the ids as the TermOrId::Id list handed on to PyHpoSet::new
AsIds(g) == [i \in 1..Len(g) |-> [t |-> "Id", v |-> g[i]]]

\* BasicPyHpoSet::build
BasicPyHpoSet_build(ids, lib) ==
    IF get_ontology # "Ok" THEN [status |-> "Panic", ids |-> <<>>]
    ELSE LET group == HpoGroup_collect(<<>>, ids)
         IN  IF HpoSet_faults(group) /\ lib.fault = "panic"
             THEN [status |-> "Panic", ids |-> <<>>]
             ELSE PyHpoSet_new(AsIds(
                    HpoSet_remove_modifier(
                      HpoSet_remove_obsolete(
                        HpoSet_replace_obsolete(
                          HpoSet_child_nodes(HpoSet_terms(group)), lib.depth)),
                      lib.rule)))

\* PhenoSet::build
PhenoSet_build(ids, lib) ==
    IF get_ontology # "Ok" THEN [status |-> "Panic", ids |-> <<>>]
    ELSE LET group == HpoGroup_collect(<<>>, ids)
         IN  IF HpoSet_faults(group) /\ lib.fault = "panic"
             THEN [status |-> "Panic", ids |-> <<>>]
             ELSE PyHpoSet_new(AsIds(
                    HpoSet_remove_modifier(
                      HpoSet_remove_obsolete(
                        HpoSet_replace_obsolete(HpoSet_terms(group), lib.depth)),
                    lib.rule)))

\* BasicPyHpoSet::from_serialized
Basic_from_serialized(pickle, lib) ==
    LET nums == parse_pickle(pickle)
    IN  IF ~nums.ok THEN [status |-> "ValueError", ids |-> <<>>]
        ELSE BasicPyHpoSet_build(nums.ids, lib)

\* PhenoSet::from_serialized
Pheno_from_serialized(pickle, lib) ==
    LET nums == parse_pickle(pickle)
    IN  IF ~nums.ok THEN [status |-> "ValueError", ids |-> <<>>]
        ELSE PhenoSet_build(nums.ids, lib)

----------------------------------------------------------------------------
(* Argument checks of the scoring entry points *)

\* PyInformationContentKind::try_from
PyInformationContentKind_try_from(kind) ==
    IF kind \in {"omim", "orpha", "gene", "custom"} THEN "Ok" ELSE "KeyError"

\* hpo::similarity::Builtins::new knows these method names
Builtins_new(method) ==
    method \in {"resnik", "lin", "jc", "jc2", "rel", "ic", "graphic", "dist"}

\* StandardCombiner::try_from knows these names
StandardCombiner_try_from(combine) ==
    combine \in {"funSimAvg", "funSimMax", "BMA"}

\* PyHpoSet::similarity
similarity(kind, method, combine) ==
    IF get_ontology # "Ok" THEN get_ontology
    ELSE IF PyInformationContentKind_try_from(kind) # "Ok" THEN "AttributeError"
    ELSE IF ~Builtins_new(method) THEN "RuntimeError"
    ELSE IF ~StandardCombiner_try_from(combine) THEN "RuntimeError"
    ELSE "Ok"

\* PyHpoSet::similarity_scores
similarity_scores(kind, method, combine) ==
    IF get_ontology # "Ok" THEN get_ontology
    ELSE IF PyInformationContentKind_try_from(kind) # "Ok"
    THEN PyInformationContentKind_try_from(kind)
    ELSE IF ~Builtins_new(method) THEN "RuntimeError"
    ELSE IF ~StandardCombiner_try_from(combine) THEN "RuntimeError"
    ELSE "Ok"

\* PyHpoSet::information_content
information_content(kind) ==
    IF PyInformationContentKind_try_from(kind) # "Ok"
    THEN PyInformationContentKind_try_from(kind)
    ELSE get_ontology

\* batch_set_similarity
batch_set_similarity(kind, method, combine) ==
    IF get_ontology # "Ok" THEN get_ontology
    ELSE IF PyInformationContentKind_try_from(kind) # "Ok"
    THEN PyInformationContentKind_try_from(kind)
    ELSE IF ~Builtins_new(method) THEN "RuntimeError"
    ELSE IF ~StandardCombiner_try_from(combine) THEN "RuntimeError"
    ELSE "Ok"

\* batch_similarity over n pairs of terms: the ontology is first asked for
\* when a pair is turned into terms
batch_similarity(n, kind, method) ==
    IF PyInformationContentKind_try_from(kind) # "Ok"
    THEN PyInformationContentKind_try_from(kind)
    ELSE IF ~Builtins_new(method) THEN "RuntimeError"
    ELSE IF n > 0 /\ get_ontology # "Ok" THEN "Panic"
    ELSE "Ok"

\* PyEnrichmentModel::enrichment
enrichment(method) ==
    IF get_ontology # "Ok" THEN get_ontology
    ELSE IF method # "hypergeom" THEN "NotImplementedError"
    ELSE "Ok"

\* batch_gene_enrichment, batch_omim_disease_enrichment,
\* batch_orpha_disease_enrichment
batch_enrichment == get_ontology

\* PyHpoTerm::similarity_score and PyHpoTerm::similarity_scores: the terms
\* they are called on only exist once the ontology is built
term_similarity(kind, method) ==
    IF PyInformationContentKind_try_from(kind) # "Ok"
    THEN PyInformationContentKind_try_from(kind)
    ELSE IF ~Builtins_new(method) THEN "RuntimeError"
    ELSE "Ok"

\* a linkage that clusters by the nearest point when it does not know the
\* method it is asked for
linkage_default_single(method, kind, similarity_method, combine) ==
    IF PyInformationContentKind_try_from(kind) # "Ok"
    THEN PyInformationContentKind_try_from(kind)
    ELSE IF ~Builtins_new(similarity_method) THEN "RuntimeError"
    ELSE IF ~StandardCombiner_try_from(combine) THEN "RuntimeError"
    ELSE IF get_ontology # "Ok" THEN get_ontology
    ELSE "Ok"

\* linkage: the outcome of its argument checks
linkage(method, kind, similarity_method, combine) ==
    IF PyInformationContentKind_try_from(kind) # "Ok"
    THEN PyInformationContentKind_try_from(kind)
    ELSE IF ~Builtins_new(similarity_method) THEN "RuntimeError"
    ELSE IF ~StandardCombiner_try_from(combine) THEN "RuntimeError"
    ELSE IF get_ontology # "Ok" THEN get_ontology
    ELSE IF method \notin {"single", "union", "complete", "average"}
    THEN "RuntimeError"
    ELSE "Ok"

\* PyOntology::hpo
Ontology_hpo(id) == term_from_id(id)

\* PyOntology::get_hpo_object
get_hpo_object(q) == term_from_query(q).status

----------------------------------------------------------------------------
(* The caller: the values it passes in *)

Handles == {1, 2}

Other(h) == 3 - h

NoSet == [live |-> FALSE, ids |-> <<>>]

Lists(S, n) == UNION {[1..k -> S] : k \in 0..n}

\* the terms the caller holds as objects once the ontology is built
TermObjects == {7, 152}

\* an integer, or a term object obtained from the built ontology
TermOrIds ==
    [t : {"Id"}, v : TermIds \cup UnknownIds]
        \cup (IF built THEN [t : {"Term"}, v : TermObjects] ELSE {})

Q_Id(v) == [t |-> "Id", v |-> v, s |-> <<>>]

Q_Str(s) == [t |-> "Str", v |-> 0, s |-> s]

Queries ==
    {Q_Id(7), Q_Id(2),
     Q_Str(<<"H", "P", ":", "0", "0", "0", "0", "1", "1", "8">>),
     Q_Str(<<"H", "P", ":", "0", "0", "0", "0", "0", "0", "2">>),
     Q_Str(<<"H", "P", ":", "x">>),
     Q_Str(name(152)),
     Q_Str(<<"z", "z">>)}

Pickles ==
    {<<"7", "+", "1", "1", "8">>,
     <<"1", "1", "8", "+", "7">>,
     <<>>,
     <<"7", "+", "2">>,
     <<"7", "+", "x">>,
     <<"3", "+", "1", "5", "2">>}

Kinds == {"omim", "nokind"}

Methods == {"graphic", "nomethod"}

Combines == {"funSimAvg", "nocombine"}

LinkageMethods == {"single", "nolinkage"}

EnrichmentMethods == {"hypergeom", "nomethod"}

\* the caller holds no EnrichmentModel
NoModel == "none"

\* no batch call is running
NoBatch == [op |-> "none", state |-> "idle", items |-> <<>>, todo |-> {},
            done |-> <<>>, out |-> <<>>]

\* no linkage call is running
NoLinkage == [state |-> "idle", n |-> 0, active |-> {}, size |-> <<>>, records |-> <<>>]

\* the names under which the caller holds iterators
IterNames == {1, 2}

\* the caller holds no iterator under a name
NoIter == [live |-> FALSE, ids |-> <<>>, members |-> <<>>, len |-> 0,
           yielded |-> <<>>, done |-> FALSE]

\* what the caller remembers of a call: the operation, the handle it was
\* called on or stored into, its outcome, the string returned or passed in,
\* whether an id passed in is no term of the ontology, and the id given
\* to add
Call(op, h, status, out, arg, unknown, id) ==
    [op |-> op, h |-> h, status |-> status, out |-> out, arg |-> arg,
     unknown |-> unknown, id |-> id]

\* some number of the list is no term
AnyUnknown(v) == \E i \in 1..Len(v) : v[i] \notin TermIds

\* the integers among the elements of a list of TermOrId
IntsOf(terms) ==
    LET ints == SelectSeq(terms, LAMBDA x : x.t = "Id")
    IN  [i \in 1..Len(ints) |-> ints[i].v]

\* the ids that a list of queries names by number or by prefixed id
IdsOfQueries(queries) ==
    LET byid == SelectSeq(queries, LAMBDA q :
                    q.t = "Id" \/ (starts_with(q.s, <<"H", "P", ":">>)
                                    /\ HpoTermId_try_from(q.s).ok))
    IN  [i \in 1..Len(byid) |->
            IF byid[i].t = "Id" THEN byid[i].v ELSE HpoTermId_try_from(byid[i].s).val]

\* the numbers of a pickle, none when it does not parse
IdsOfPickle(pickle) == parse_pickle(pickle).ids

\* the set a handle refers to
set_of(h) == heap[ref[h]]

\* the caller binds the set it makes from a list to its first handle
First == CHOOSE h \in Handles : \A g \in Handles : h <= g

\* and the set it reads from a string to the first handle that is free
FreeHandle == IF ~set_of(1).live THEN 1 ELSE 2

\* the object a set newly bound to handle h is stored in: one that the
\* other handle does not refer to
NewObject(h) == CHOOSE o \in Handles : o # ref[Other(h)]

\* handle h is bound to a new object holding ids
Bind(h, ids) ==
    /\ heap' = [heap EXCEPT ![NewObject(h)] = [live |-> TRUE, ids |-> ids]]
    /\ ref' = [ref EXCEPT ![h] = NewObject(h)]

\* a constructor's outcome: the set exists only when the call succeeded
Construct(op, h, r, arg, unknown) ==
    /\ ~set_of(h).live
    /\ IF r.status = "Ok" THEN Bind(h, r.ids) ELSE UNCHANGED <<heap, ref>>
    /\ last' = Call(op, h, r.status, <<>>, arg, unknown, 0)
    /\ UNCHANGED <<ONTOLOGY, stats>>

----------------------------------------------------------------------------
(* Actions *)

Init ==
    /\ ONTOLOGY = Unset
    /\ heap = [o \in Handles |-> NoSet]
    /\ ref = [h \in Handles |-> h]
    /\ last = Call("init", 0, "Ok", <<>>, <<>>, FALSE, 0)
    /\ model = NoModel
    /\ batch = NoBatch
    /\ res = NoLinkage
    /\ iters = [i \in IterNames |-> NoIter]

\* Ontology(data_folder, from_obo_file, transitive)
OntologyCall(data_folder, from_obo_file, transitive) ==
    LET r == Ontology_call(ONTOLOGY, data_folder, from_obo_file, transitive)
    IN  /\ ONTOLOGY' = r.cell
        /\ last' = Call("Ontology", 0, r.status, <<>>,
                        <<data_folder, from_obo_file, transitive>>,
                        ~CanLoad(data_folder, from_obo_file, transitive), 0)
        /\ UNCHANGED <<heap, ref, stats>>

\* Ontology(): the call with its default arguments
Ontology == OntologyCall("", TRUE, FALSE)

\* HPOSet(terms)
New(terms) ==
    Construct("HPOSet", First, PyHpoSet_new(terms), <<>>, AnyUnknown(IntsOf(terms)))

\* HPOSet.from_serialized(pickle)
FromSerialized(pickle) ==
    Construct("from_serialized", FreeHandle, from_serialized(pickle), pickle,
              AnyUnknown(IdsOfPickle(pickle)))

\* HPOSet.from_queries(queries)
FromQueries(queries) ==
    Construct("from_queries", First, from_queries(queries), <<>>,
              AnyUnknown(IdsOfQueries(queries)))

\* HPOSet.from_queries([query]): a list of one query, which the caller notes
FromQuery(query) ==
    Construct("from_queries", First, from_queries(<<query>>), <<query>>,
              AnyUnknown(IdsOfQueries(<<query>>)))

\* BasicHPOSet(ids)
BasicNew(ids) ==
    \E lib \in LibraryChoices :
        Construct("BasicHPOSet", First, BasicPyHpoSet_build(ids, lib), <<>>,
                  AnyUnknown(ids))

\* BasicHPOSet.from_serialized(pickle)
BasicFromSerialized(pickle) ==
    \E lib \in LibraryChoices :
        Construct("BasicHPOSet.from_serialized", FreeHandle,
                  Basic_from_serialized(pickle, lib), pickle,
                  AnyUnknown(IdsOfPickle(pickle)))

\* HPOPhenoSet(ids)
PhenoNew(ids) ==
    \E lib \in LibraryChoices :
        Construct("HPOPhenoSet", First, PhenoSet_build(ids, lib), <<>>,
                  AnyUnknown(ids))

\* HPOPhenoSet.from_serialized(pickle)
PhenoFromSerialized(pickle) ==
    \E lib \in LibraryChoices :
        Construct("HPOPhenoSet.from_serialized", FreeHandle,
                  Pheno_from_serialized(pickle, lib), pickle,
                  AnyUnknown(IdsOfPickle(pickle)))

\* s.add(term): the object behind the handle is changed in place
Add(h, term) ==
    /\ set_of(h).live
    /\ Len(set_of(h).ids) < MaxSetLen
    /\ LET r == add(set_of(h).ids, term)
       IN  /\ heap' = [heap EXCEPT ![ref[h]].ids = r.ids]
           /\ last' = Call("add", h, r.status, <<>>, <<>>,
                           term.t = "Id" /\ term.v \notin TermIds, term.v)
    /\ UNCHANGED <<ONTOLOGY, ref, stats>>

\* a transform that works on the receiver itself and hands it back
Transform_in_place(op, h, r) ==
    /\ set_of(h).live
    /\ IF r.status = "Ok"
       THEN /\ heap' = [heap EXCEPT ![ref[h]].ids = r.ids]
            /\ ref' = [ref EXCEPT ![Other(h)] = ref[h]]
       ELSE UNCHANGED <<heap, ref>>
    /\ last' = Call(op, h, r.status, <<>>, <<>>, FALSE, 0)
    /\ UNCHANGED <<ONTOLOGY, stats>>

\* a transform of the set h works on a copy of its ids; the caller binds
\* the set returned to the other handle
Transform(op, h, r) ==
    /\ set_of(h).live
    /\ IF r.status = "Ok" THEN Bind(Other(h), r.ids) ELSE UNCHANGED <<heap, ref>>
    /\ last' = Call(op, h, r.status, <<>>, <<>>, FALSE, 0)
    /\ UNCHANGED <<ONTOLOGY, stats>>

\* s.child_nodes()
ChildNodes(h) == Transform("child_nodes", h, child_nodes(set_of(h).ids))

\* s.remove_modifier()
RemoveModifier(h) ==
    \E rule \in ModifierRules :
        Transform("remove_modifier", h, remove_modifier(set_of(h).ids, rule))

\* s.replace_obsolete()
ReplaceObsolete(h) ==
    \E depth \in ChaseDepths :
        Transform("replace_obsolete", h, replace_obsolete(set_of(h).ids, depth))

\* s.serialize()
Serialize(h) ==
    /\ set_of(h).live
    /\ last' = Call("serialize", h, "Ok", serialize(set_of(h).ids), <<>>, FALSE, 0)
    /\ UNCHANGED <<ONTOLOGY, heap, ref, stats>>

\* a call that returns a value or fails and changes nothing
Query(op, h, status) ==
    /\ last' = Call(op, h, status, <<>>, <<>>, FALSE, 0)
    /\ UNCHANGED <<ONTOLOGY, heap, ref, stats>>

\* such a call, with the names of the algorithms it was asked to use
Select(op, h, status, names) ==
    /\ last' = Call(op, h, status, <<>>, names, FALSE, 0)
    /\ UNCHANGED <<ONTOLOGY, heap, ref, stats>>

\* Ontology.hpo(id)
Hpo(id) == Query("hpo", 0, Ontology_hpo(id))

\* Ontology.get_hpo_object(query)
GetHpoObject(q) == Select("get_hpo_object", 0, get_hpo_object(q), <<q>>)

\* s.similarity(other, kind, method, combine)
Similarity(h, kind, method, combine) ==
    /\ set_of(h).live /\ set_of(Other(h)).live
    /\ Select("similarity", h, similarity(kind, method, combine),
              [kind |-> kind, method |-> method, combine |-> combine])

\* s.similarity_scores(others, kind, method, combine)
SimilarityScores(h, kind, method, combine) ==
    /\ set_of(h).live
    /\ Select("similarity_scores", h, similarity_scores(kind, method, combine),
              [kind |-> kind, method |-> method, combine |-> combine])

\* s.information_content(kind)
InformationContent(h, kind) ==
    /\ set_of(h).live
    /\ Query("information_content", h, information_content(kind))

\* batch_set_similarity(comparisons, kind, method, combine)
BatchSetSimilarity(kind, method, combine) ==
    Select("batch_set_similarity", 0, batch_set_similarity(kind, method, combine),
           [kind |-> kind, method |-> method, combine |-> combine])

\* batch_similarity(comparisons, kind, method): pairs of terms exist only
\* once the ontology is built
BatchSimilarity(n, kind, method) ==
    /\ n > 0 => built
    /\ Select("batch_similarity", 0, batch_similarity(n, kind, method),
              [kind |-> kind, method |-> method])

\* EnrichmentModel(category).enrichment(method, s)
Enrichment(h, method) ==
    /\ set_of(h).live
    /\ Query("enrichment", h, enrichment(method))

\* batch_gene_enrichment(sets) and its omim and orpha siblings
BatchEnrichment == Query("batch_enrichment", 0, batch_enrichment)

\* linkage(sets, method, kind, similarity_method, combine)
Linkage(method, kind, similarity_method, combine) ==
    Select("linkage", 0, linkage(method, kind, similarity_method, combine),
           [linkage |-> method, kind |-> kind, method |-> similarity_method,
            combine |-> combine])

\* t.similarity_score(other, kind, method) and t.similarity_scores(others,
\* kind, method) of a term t of the built ontology
TermSimilarity(op, kind, method) ==
    /\ built
    /\ Select(op, 0, term_similarity(kind, method), [kind |-> kind, method |-> method])

\* the short lists the caller passes while it exercises the entry points
FewLists(S) == Lists(S, 1)

\* the calls that build, change and print sets; a list is only drawn when
\* the handle it would be bound to is free
Next ==
    \/ Ontology
    \/ /\ ~set_of(First).live
       /\ \E terms \in Lists(TermOrIds, MaxIds) : New(terms)
    \/ \E pickle \in Pickles \cup {last.out} : FromSerialized(pickle)
    \/ /\ ~set_of(First).live
       /\ \E queries \in Lists(Queries, MaxIds) : FromQueries(queries)
    \/ /\ ~set_of(First).live
       /\ \E ids \in Lists(TermIds \cup UnknownIds, MaxIds) : BasicNew(ids)
    \/ \E pickle \in Pickles : BasicFromSerialized(pickle)
    \/ /\ ~set_of(First).live
       /\ \E ids \in Lists(TermIds \cup UnknownIds, MaxIds) : PhenoNew(ids)
    \/ \E pickle \in Pickles : PhenoFromSerialized(pickle)
    \/ \E h \in Handles, term \in TermOrIds : Add(h, term)
    \/ \E h \in Handles : ChildNodes(h)
    \/ \E h \in Handles : RemoveModifier(h)
    \/ \E h \in Handles : ReplaceObsolete(h)
    \/ \E h \in Handles : Serialize(h)

Spec == Init /\ [][Next]_vars

\* the calls of every entry point that needs the ontology, before and
\* after it is built
NextCalls ==
    \/ Ontology
    \/ /\ ~set_of(First).live
       /\ \E terms \in FewLists(TermOrIds) : New(terms)
    \/ \E pickle \in Pickles : FromSerialized(pickle)
    \/ /\ ~set_of(First).live
       /\ \E queries \in FewLists(Queries) : FromQueries(queries)
    \/ /\ ~set_of(First).live
       /\ \E ids \in FewLists(TermIds \cup UnknownIds) : BasicNew(ids)
    \/ \E pickle \in Pickles : BasicFromSerialized(pickle)
    \/ /\ ~set_of(First).live
       /\ \E ids \in FewLists(TermIds \cup UnknownIds) : PhenoNew(ids)
    \/ \E pickle \in Pickles : PhenoFromSerialized(pickle)
    \/ \E h \in Handles : ChildNodes(h)
    \/ \E h \in Handles : RemoveModifier(h)
    \/ \E h \in Handles : ReplaceObsolete(h)
    \/ \E id \in TermIds \cup UnknownIds : Hpo(id)
    \/ \E q \in Queries : GetHpoObject(q)
    \/ \E h \in Handles, kind \in Kinds, method \in Methods, combine \in Combines :
          Similarity(h, kind, method, combine)
    \/ \E h \in Handles, kind \in Kinds, method \in Methods, combine \in Combines :
          SimilarityScores(h, kind, method, combine)
    \/ \E h \in Handles, kind \in Kinds : InformationContent(h, kind)
    \/ \E kind \in Kinds, method \in Methods, combine \in Combines :
          BatchSetSimilarity(kind, method, combine)
    \/ \E n \in 0..1, kind \in Kinds, method \in Methods : BatchSimilarity(n, kind, method)
    \/ \E h \in Handles, method \in EnrichmentMethods : Enrichment(h, method)
    \/ BatchEnrichment
    \/ \E method \in LinkageMethods, kind \in Kinds, sm \in Methods, combine \in Combines :
          Linkage(method, kind, sm, combine)
    \/ \E op \in {"HPOTerm.similarity_score", "HPOTerm.similarity_scores"},
          kind \in Kinds, method \in Methods :
          TermSimilarity(op, kind, method)

SpecCalls == Init /\ [][NextCalls]_vars

\* every way of calling Ontology(...), among the calls of the entry points
\* and of the methods of the sets (add on an empty set only)
NextBuild ==
    \/ \E data_folder \in DataFolders, from_obo_file \in BOOLEAN, transitive \in BOOLEAN :
          OntologyCall(data_folder, from_obo_file, transitive)
    \/ NextCalls
    \/ \E h \in Handles, term \in TermOrIds :
          set_of(h).ids = <<>> /\ Add(h, term)
    \/ \E h \in Handles : Serialize(h)

SpecBuild == Init /\ [][NextBuild]_vars

----------------------------------------------------------------------------
(* Batch calls and enrichment: lib.rs, set.rs, term.rs, enrichment.rs *)

\* the longest list of inputs a batch call is given
MaxBatch == 3

\* the most results the library reports for one set
MaxEnriched == 2

\* the genes or diseases the library reports on
Entities == 1..MaxEnriched

\* the p-values, by rank
PValues == {1, 2}

\* what hpo::stats::hypergeom computes for a set: one result for each
\* enriched gene or disease, in no particular order
RawEnrichments ==
    {enr \in Lists([id : Entities, pvalue : PValues], MaxEnriched) :
        \A i, j \in 1..Len(enr) : enr[i].id = enr[j].id => i = j}

\* the place of x among the elements of sorted that a stable sort gives it
RECURSIVE insert_by_pvalue(_, _)
insert_by_pvalue(sorted, x) ==
    IF sorted = <<>> THEN <<x>>
    ELSE IF x.pvalue < sorted[Len(sorted)].pvalue
         THEN Append(insert_by_pvalue(SubSeq(sorted, 1, Len(sorted) - 1), x),
                     sorted[Len(sorted)])
         ELSE Append(sorted, x)

\* the list left in the order the library reported it
sort_by_pvalue_skipped(enr) == enr

\* enr.sort_by(|a, b| a.pvalue().partial_cmp(&b.pvalue()).unwrap())
RECURSIVE sort_by_pvalue(_)
sort_by_pvalue(enr) ==
    IF enr = <<>> THEN <<>>
    ELSE insert_by_pvalue(sort_by_pvalue(SubSeq(enr, 1, Len(enr) - 1)), enr[Len(enr)])

\* the dict made of each result keeps its place in the list
enrichment_dict(e) ==
    [item |-> e.id, enrichment |-> e.pvalue]

enrichment_dicts(enr) == [i \in 1..Len(enr) |-> enrichment_dict(enr[i])]

Categories == {"gene", "omim", "orpha", "nocategory"}

\* a model of an unknown category computes what the gene model computes
PyEnrichmentModel_new_default(category) ==
    IF category \in {"gene", "omim", "orpha"}
    THEN [status |-> "Ok", kind |-> category]
    ELSE [status |-> "Ok", kind |-> "gene"]

\* PyEnrichmentModel::new(category)
PyEnrichmentModel_new(category) ==
    IF category \in {"gene", "omim", "orpha"}
    THEN [status |-> "Ok", kind |-> category]
    ELSE [status |-> "KeyError", kind |-> NoModel]

\* PyEnrichmentModel::enrichment(method, hposet), where enr is what the
\* library computes for hposet
PyEnrichmentModel_enrichment(method, enr) ==
    IF ~built THEN [status |-> "NameError", out |-> <<>>]
    ELSE IF method # "hypergeom" THEN [status |-> "NotImplementedError", out |-> <<>>]
    ELSE [status |-> "Ok", out |-> enrichment_dicts(sort_by_pvalue(enr))]

\* the entry points that map a list on the thread pool
SimilarityBatchOps ==
    {"batch_similarity", "batch_set_similarity",
     "HPOSet.similarity_scores", "HPOTerm.similarity_scores"}

EnrichmentBatchOps ==
    {"batch_gene_enrichment", "batch_omim_disease_enrichment",
     "batch_orpha_disease_enrichment"}

BatchOps == SimilarityBatchOps \cup EnrichmentBatchOps

\* the inputs of a batch call: the comparisons or sets the caller passes,
\* each named by the list of results the library computes for it
BatchInputs ==
    {<<[id |-> 1, pvalue |-> 2], [id |-> 2, pvalue |-> 1]>>,
     <<[id |-> 2, pvalue |-> 1]>>}

\* a closure that hands the enrichment of a set on as the library reported it
map_item_unsorted(op, item) ==
    IF op \in EnrichmentBatchOps
    THEN item
    ELSE [score_of |-> item]

\* the closure given to map(): the score of a comparison, or the sorted
\* enrichment of a set
map_item(op, item) ==
    IF op \in EnrichmentBatchOps
    THEN sort_by_pvalue(item)
    ELSE [score_of |-> item]

\* what the batch call returns for one element once the threads are done
return_item(op, r) ==
    IF op \in EnrichmentBatchOps THEN enrichment_dicts(r) ELSE r

\* a collect() that takes the results as the threads deliver them
collect_as_completed(i, done) == Len(done) + 1

\* par_iter().map(..).collect(): the place in the output where the result
\* of the i-th input is written, whatever was done before it
collect(i, done) == i

\* EnrichmentModel(category)
EnrichmentModel(category) ==
    /\ batch.state # "running"
    /\ LET r == PyEnrichmentModel_new(category)
       IN  /\ model' = r.kind
           /\ last' = Call("EnrichmentModel", 0, r.status, <<>>, <<category>>, FALSE, 0)
    /\ batch' = NoBatch
    /\ UNCHANGED <<ONTOLOGY, heap, ref, res, iters>>

\* model.enrichment(method, hposet)
ModelEnrichment(method, enr) ==
    /\ batch.state # "running"
    /\ model # NoModel
    /\ LET r == PyEnrichmentModel_enrichment(method, enr)
       IN  last' = Call("model.enrichment", 0, r.status, r.out, <<method, enr>>, FALSE, 0)
    /\ batch' = NoBatch
    /\ UNCHANGED <<ONTOLOGY, heap, ref, model, res, iters>>

\* a batch call begins: it fails at once without the ontology, otherwise
\* it hands its inputs to the thread pool
BatchStart(op, items) ==
    /\ batch.state # "running"
    /\ IF ~built
       THEN /\ batch' = NoBatch
            /\ last' = Call(op, 0, "NameError", <<>>, <<>>, FALSE, 0)
       ELSE /\ batch' = [op |-> op, state |-> "running", items |-> items,
                         todo |-> 1..Len(items), done |-> <<>>,
                         out |-> [i \in 1..Len(items) |-> <<>>]]
            /\ last' = Call(op, 0, "running", <<>>, <<>>, FALSE, 0)
    /\ UNCHANGED <<ONTOLOGY, heap, ref, model, res, iters>>

\* a thread of the pool maps the i-th input
BatchWorker(i) ==
    /\ batch.state = "running"
    /\ i \in batch.todo
    /\ batch' = [batch EXCEPT
                    !.todo = @ \ {i},
                    !.done = Append(@, i),
                    !.out[collect(i, batch.done)] = map_item(batch.op, batch.items[i])]
    /\ UNCHANGED <<ONTOLOGY, heap, ref, last, model, res, iters>>

\* every input is mapped: the call returns the collected list
BatchReturn ==
    /\ batch.state = "running"
    /\ batch.todo = {}
    /\ batch' = [batch EXCEPT
                    !.state = "returned",
                    !.out = [i \in 1..Len(batch.out) |-> return_item(batch.op, batch.out[i])]]
    /\ last' = Call(batch.op, 0, "Ok", <<>>, <<>>, FALSE, 0)
    /\ UNCHANGED <<ONTOLOGY, heap, ref, model, res, iters>>

NextStats ==
    \/ batch.state # "running" /\ Ontology
    \/ \E category \in Categories : EnrichmentModel(category)
    \/ \E method \in EnrichmentMethods, enr \in RawEnrichments :
          ModelEnrichment(method, enr)
    \/ \E op \in BatchOps, items \in Lists(BatchInputs, MaxBatch) : BatchStart(op, items)
    \/ \E i \in 1..MaxBatch : BatchWorker(i)
    \/ BatchReturn

SpecStats == Init /\ [][NextStats]_vars

----------------------------------------------------------------------------
(* Linkage: linkage.rs, and the clustering of hpo::stats::Linkage *)

\* the most sets a linkage call is given
MaxSets == 4

\* the names the caller passes as linkage method
LinkageNames == {"single", "union", "complete", "average"} \cup LinkageMethods

\* the distance the closure passed to Linkage computes between two clusters
distance(a, b) == [between |-> {a, b}]

\* Linkage::single, union, complete, average begin with every input set
\* a cluster of its own, numbered in input order from 0
Linkage_new(n) ==
    [state |-> "running", n |-> n, active |-> 0..(n - 1),
     size |-> [i \in 0..(n - 1) |-> 1], records |-> <<>>]

\* a merge that counts its right input as a single member
Linkage_merge_rhs_as_one(r, lhs, rhs) ==
    LET id == r.n + Len(r.records)
        len == r.size[lhs] + 1
    IN  [r EXCEPT
            !.active = (@ \ {lhs, rhs}) \cup {id},
            !.size = [i \in DOMAIN r.size \cup {id} |-> IF i = id THEN len ELSE r.size[i]],
            !.records = Append(@, [lhs |-> lhs, rhs |-> rhs,
                                   distance |-> distance(lhs, rhs), len |-> len])]

\* one step of the clustering: the two clusters lhs and rhs are retired and
\* a cluster with the next free number holds the members of both
Linkage_merge(r, lhs, rhs) ==
    LET id == r.n + Len(r.records)
        len == r.size[lhs] + r.size[rhs]
    IN  [r EXCEPT
            !.active = (@ \ {lhs, rhs}) \cup {id},
            !.size = [i \in DOMAIN r.size \cup {id} |-> IF i = id THEN len ELSE r.size[i]],
            !.records = Append(@, [lhs |-> lhs, rhs |-> rhs,
                                   distance |-> distance(lhs, rhs), len |-> len])]

\* a result that leaves out the last cluster
cluster_tuples_but_last(records) ==
    [k \in 1..(Len(records) - 1) |->
        <<records[k].lhs, records[k].rhs, records[k].distance, records[k].len>>]

\* res.cluster().map(|cluster| (lhs, rhs, distance, len)).collect()
cluster_tuples(records) ==
    [k \in 1..Len(records) |->
        <<records[k].lhs, records[k].rhs, records[k].distance, records[k].len>>]

\* linkage(sets, method) with n sets and the default kind, similarity method
\* and combiner: it fails on its arguments, or begins to cluster
LinkageStart(n, method) ==
    /\ res.state # "running"
    /\ LET status == linkage(method, "omim", "graphic", "funSimAvg")
           names == [linkage |-> method, kind |-> "omim", method |-> "graphic",
                     combine |-> "funSimAvg"]
       IN  IF status # "Ok"
           THEN /\ res' = NoLinkage
                /\ last' = Call("linkage", 0, status, <<>>, names, FALSE, 0)
           ELSE /\ res' = Linkage_new(n)
                /\ last' = Call("linkage", 0, "running", <<>>, names, FALSE, 0)
    /\ UNCHANGED <<ONTOLOGY, heap, ref, model, batch, iters>>

\* the clustering merges two of the clusters that are left
LinkageMerge(lhs, rhs) ==
    /\ res.state = "running"
    /\ Cardinality(res.active) > 1
    /\ lhs \in res.active /\ rhs \in res.active /\ lhs # rhs
    /\ res' = Linkage_merge(res, lhs, rhs)
    /\ UNCHANGED <<ONTOLOGY, heap, ref, last, model, batch, iters>>

\* one cluster is left: the call returns the records of the merges
LinkageReturn ==
    /\ res.state = "running"
    /\ Cardinality(res.active) <= 1
    /\ res' = [res EXCEPT !.state = "returned"]
    /\ last' = [last EXCEPT !.status = "Ok", !.out = cluster_tuples(res.records)]
    /\ UNCHANGED <<ONTOLOGY, heap, ref, model, batch, iters>>

ClusterIds == 0..(2 * MaxSets)

NextLinkage ==
    \/ res.state # "running" /\ Ontology
    \/ \E n \in 1..MaxSets, method \in LinkageNames : LinkageStart(n, method)
    \/ \E lhs \in ClusterIds, rhs \in ClusterIds : LinkageMerge(lhs, rhs)
    \/ LinkageReturn

\* a clustering that has begun is carried on until it returns
SpecLinkage ==
    /\ Init
    /\ [][NextLinkage]_vars
    /\ WF_vars(\E lhs \in ClusterIds, rhs \in ClusterIds : LinkageMerge(lhs, rhs))
    /\ WF_vars(LinkageReturn)

----------------------------------------------------------------------------
(* Terms, genes and diseases as Python objects: term.rs, annotations.rs *)

EntityClasses == {"HPOTerm", "Gene", "Omim", "Orpha"}

EntityNames == {"Scoliosis", "GBA1"}

\* the objects of one class that the caller may hold
Objects(class) == [class : {class}, id : TermObjects, name : EntityNames]

CompareOps == {"==", "!=", "<", "<=", ">", ">="}

\* an equality that looks at every field of the objects
PartialEq_eq_fields(a, b) == a.id = b.id /\ a.name = b.name

\* impl PartialEq: fn eq(&self, other: &Self)
PartialEq_eq(a, b) == a.id = b.id

\* fn __hash__(&self) -> u32
hash(a) == a.id

\* fn __richcmp__(&self, other: &Self, op: CompareOp)
richcmp(a, b, op) ==
    CASE op = "==" -> [status |-> "Ok", out |-> <<PartialEq_eq(a, b)>>]
      [] op = "!=" -> [status |-> "Ok", out |-> <<~PartialEq_eq(a, b)>>]
      [] OTHER -> [status |-> "TypeError", out |-> <<>>]

\* a op b, for two objects of one class obtained from the ontology
RichCmp(a, b, op) ==
    /\ built
    /\ LET r == richcmp(a, b, op)
       IN  last' = Call("__richcmp__", 0, r.status, r.out, <<a, b, op>>, FALSE, 0)
    /\ UNCHANGED <<ONTOLOGY, heap, ref, stats>>

\* hash(a) and hash(b)
Hash(a, b) ==
    /\ built
    /\ last' = Call("__hash__", 0, "Ok", <<hash(a), hash(b)>>, <<a, b>>, FALSE, 0)
    /\ UNCHANGED <<ONTOLOGY, heap, ref, stats>>

NextEntities ==
    \/ Ontology
    \/ \E class \in EntityClasses, op \in CompareOps :
          \E a \in Objects(class), b \in Objects(class) : RichCmp(a, b, op)
    \/ \E class \in EntityClasses :
          \E a \in Objects(class), b \in Objects(class) : Hash(a, b)

SpecEntities == Init /\ [][NextEntities]_vars

----------------------------------------------------------------------------
(* Iteration: set.rs Iter, ontology.rs OntologyIterator *)

Iter_new_but_first(ids) == IF ids = <<>> THEN <<>> ELSE Tail(ids)

\* Iter::new: the ids of the set, copied into the iterator's own queue
Iter_new(ids) == ids

\* the terms of the ontology in the order of its iterator
RECURSIVE Ontology_into_iter(_)
Ontology_into_iter(S) ==
    IF S = {} THEN <<>>
    ELSE LET m == CHOOSE x \in S : \A y \in S : x <= y
         IN  <<m>> \o Ontology_into_iter(S \ {m})

\* OntologyIterator::new
OntologyIterator_new ==
    IF get_ontology # "Ok" THEN [status |-> get_ontology, ids |-> <<>>]
    ELSE [status |-> "Ok", ids |-> Ontology_into_iter(TermIds)]

\* PyOntology::__len__ once the ontology is built
Ontology_len == Cardinality(TermIds)

\* pyterm_from_id(id).unwrap() in __next__
pyterm_unwrap(id) == IF term_from_id(id) = "Ok" THEN "Ok" ELSE "Panic"

\* Iter::__next__ and OntologyIterator::__next__: the front of the queue is
\* popped and returned as a term; None ends the iteration
Iter_next(ids) ==
    IF ids = <<>> THEN [some |-> FALSE, status |-> "Ok", id |-> 0, ids |-> ids]
    ELSE [some |-> TRUE, status |-> pyterm_unwrap(Head(ids)), id |-> Head(ids),
          ids |-> Tail(ids)]

\* iter(s): PyHpoSet::__iter__; the caller notes the members and len(s) of
\* that moment
SetIter(i, h) ==
    /\ set_of(h).live
    /\ iters' = [iters EXCEPT ![i] =
                    [live |-> TRUE, ids |-> Iter_new(set_of(h).ids),
                     members |-> set_of(h).ids, len |-> Len(set_of(h).ids),
                     yielded |-> <<>>, done |-> FALSE]]
    /\ last' = Call("iter", h, "Ok", <<>>, <<>>, FALSE, i)
    /\ UNCHANGED <<ONTOLOGY, heap, ref, model, batch, res>>

\* iter(Ontology): PyOntology::__iter__
OntologyIter(i) ==
    LET r == OntologyIterator_new
    IN  /\ iters' = [iters EXCEPT ![i] =
                        IF r.status # "Ok" THEN @
                        ELSE [live |-> TRUE, ids |-> r.ids,
                              members |-> Ontology_into_iter(TermIds),
                              len |-> Ontology_len,
                              yielded |-> <<>>, done |-> FALSE]]
        /\ last' = Call("iter", 0, r.status, <<>>, <<>>, FALSE, i)
        /\ UNCHANGED <<ONTOLOGY, heap, ref, model, batch, res>>

\* next(it)
IterNext(i) ==
    /\ iters[i].live
    /\ LET r == Iter_next(iters[i].ids)
       IN  /\ iters' = [iters EXCEPT ![i].ids = r.ids,
                                     ![i].yielded = IF r.some /\ r.status = "Ok"
                                                    THEN Append(@, r.id) ELSE @,
                                     ![i].done = ~r.some]
           /\ last' = Call("next", 0, IF r.some THEN r.status ELSE "StopIteration",
                           <<>>, <<>>, FALSE, i)
    /\ UNCHANGED <<ONTOLOGY, heap, ref, model, batch, res>>

\* sets are made, grown and iterated, and the ontology is iterated
NextIter ==
    \/ Ontology
    \/ /\ ~set_of(First).live
       /\ \E terms \in FewLists(TermOrIds) : New(terms)
    \/ \E h \in Handles, term \in TermOrIds : Add(h, term)
    \/ \E i \in IterNames, h \in Handles : SetIter(i, h)
    \/ \E i \in IterNames : OntologyIter(i)
    \/ \E i \in IterNames : IterNext(i)

SpecIter == Init /\ [][NextIter]_vars

----------------------------------------------------------------------------
(* JSON: set.rs PyHpoSet::toJSON, term.rs PyHpoTerm::toJSON *)

\* HpoTermId::to_string: "HP:" and the number in seven digits
HpoTermId_to_string(id) ==
    LET digits == to_string(id)
    IN  <<"H", "P", ":">> \o [i \in 1..(7 - Len(digits)) |-> "0"] \o digits

\* the information content the ontology holds for a term, in units of a
\* thousandth: the root annotates everything, an obsolete term nothing
term_information_content(t) ==
    CASE t = 7   -> [gene |-> 5, omim |-> 6, orpha |-> 0]
      [] t = 118 -> [gene |-> 1, omim |-> 1, orpha |-> 1]
      [] t = 152 -> [gene |-> 2, omim |-> 3, orpha |-> 4]
      [] OTHER   -> [gene |-> 0, omim |-> 0, orpha |-> 0]

\* the fields a verbose dict has besides name, id and int, given its ic dict
verbose_dict(t, ic) ==
    [name |-> name(t), id |-> HpoTermId_to_string(t), int |-> t,
     synonym |-> <<>>, comment |-> <<>>, definition |-> <<>>, xref |-> <<>>,
     is_a |-> <<>>, ic |-> ic]

\* PyHpoTerm::toJSON
PyHpoTerm_toJSON(t, verbose) ==
    IF ~verbose
    THEN [name |-> name(t), id |-> HpoTermId_to_string(t), int |-> t]
    ELSE verbose_dict(t, [gene |-> term_information_content(t).gene,
                          omim |-> term_information_content(t).omim,
                          orpha |-> term_information_content(t).orpha,
                          decipher |-> 0])

\* the closure of PyHpoSet::toJSON: the dict of one member
toJSON_member(t, verbose) ==
    IF ~verbose
    THEN [name |-> name(t), id |-> HpoTermId_to_string(t), int |-> t]
    ELSE verbose_dict(t, [gene |-> term_information_content(t).gene,
                          omim |-> term_information_content(t).omim,
                          orpha |-> 0,
                          decipher |-> 0])

\* PyHpoSet::toJSON with its result
PyHpoSet_toJSON_dicts(ids, verbose) ==
    IF PyHpoSet_toJSON(ids) # "Ok" THEN [status |-> PyHpoSet_toJSON(ids), out |-> <<>>]
    ELSE [status |-> "Ok", out |-> [i \in 1..Len(ids) |-> toJSON_member(ids[i], verbose)]]

\* s.toJSON(verbose)
SetToJSON(h, verbose) ==
    /\ set_of(h).live
    /\ LET r == PyHpoSet_toJSON_dicts(set_of(h).ids, verbose)
       IN  last' = Call("HPOSet.toJSON", h, r.status, r.out, <<verbose>>, FALSE, 0)
    /\ UNCHANGED <<ONTOLOGY, heap, ref, stats>>

\* t.toJSON(verbose), for a term obtained from the ontology
TermToJSON(t, verbose) ==
    /\ built
    /\ last' = Call("HPOTerm.toJSON", 0, "Ok", PyHpoTerm_toJSON(t, verbose),
                    <<verbose>>, FALSE, t)
    /\ UNCHANGED <<ONTOLOGY, heap, ref, stats>>

NextJson ==
    \/ Ontology
    \/ /\ ~set_of(First).live
       /\ \E terms \in Lists(TermOrIds, MaxIds) : New(terms)
    \/ \E h \in Handles, term \in TermOrIds : Add(h, term)
    \/ \E h \in Handles, verbose \in BOOLEAN : SetToJSON(h, verbose)
    \/ \E t \in TermIds, verbose \in BOOLEAN : TermToJSON(t, verbose)

SpecJson == Init /\ [][NextJson]_vars

----------------------------------------------------------------------------
(* Paths between terms: term.rs, ontology.rs, and hpo::HpoTerm *)

NoPath == [ok |-> FALSE, path |-> <<>>]

Reverse(q) == [i \in 1..Len(q) |-> q[Len(q) + 1 - i]]

\* a shortest chain of parents from a up to its ancestor anc: a itself is
\* left out, anc is its last element
RECURSIVE chain(_, _)
chain(a, anc) ==
    IF a = anc THEN <<>>
    ELSE LET via == {p \in parent_ids(a) : anc \in all_parents(p) \cup {p}}
             chains == {<<p>> \o chain(p, anc) : p \in via}
         IN  CHOOSE c \in chains : \A d \in chains : Len(c) <= Len(d)

\* HpoTerm::path_to_ancestor: None when other is not a parent term
path_to_ancestor(a, other) ==
    IF other \in all_parents(a) THEN [ok |-> TRUE, path |-> chain(a, other)] ELSE NoPath

\* what HpoTerm::distance_to_ancestor and HpoTerm::path_to_term may answer
\* when asked for the way from a term to itself: nothing, the empty path,
\* or the term alone
SelfPaths == {"none", "empty", "self"}

\* HpoTerm::distance_to_ancestor
distance_to_ancestor(a, other, self_path) ==
    IF a = other
    THEN IF self_path = "none" THEN [ok |-> FALSE, distance |-> 0]
         ELSE [ok |-> TRUE, distance |-> 0]
    ELSE [ok |-> path_to_ancestor(a, other).ok,
          distance |-> Len(path_to_ancestor(a, other).path)]

\* the terms that are a or b or above both
common_ancestors(a, b) ==
    (all_parents(a) \cup {a}) \cap (all_parents(b) \cup {b})

\* HpoTerm::path_to_term: up from a to the nearest common ancestor and down
\* to b, without a and with b
path_to_term(a, b, self_path) ==
    IF a = b
    THEN CASE self_path = "none" -> NoPath
           [] self_path = "empty" -> [ok |-> TRUE, path |-> <<>>]
           [] OTHER -> [ok |-> TRUE, path |-> <<a>>]
    ELSE IF common_ancestors(a, b) = {} THEN NoPath
    ELSE LET c == CHOOSE x \in common_ancestors(a, b) :
                    \A y \in common_ancestors(a, b) :
                        Len(chain(a, x)) + Len(chain(b, x))
                            <= Len(chain(a, y)) + Len(chain(b, y))
             up == chain(a, c)
             down == Reverse(<<b>> \o chain(b, c))
         IN  [ok |-> TRUE, path |-> up \o Tail(down)]

\* Vec::contains
contains(path, id) == \E i \in 1..Len(path) : path[i] = id

\* PyHpoTerm::path_to_other
path_to_other(self, other, self_path) ==
    LET found == path_to_term(self, other, self_path)
        len == Len(found.path)
        path == IF contains(found.path, self) THEN found.path ELSE <<self>> \o found.path
    IN  IF ~found.ok THEN [status |-> "RuntimeError", out |-> <<>>]
        ELSE [status |-> "Ok", out |-> <<len, path, 0, 0>>]

\* the pair (distance, path) of shortest_path_to_parent: inf stands for
\* the distance f32::INFINITY
ParentPath(inf, d, path) == [inf |-> inf, distance |-> d, path |-> path]

shortest_path_to_parent_zero(self, other) ==
    LET found == path_to_ancestor(self, other)
    IN  ParentPath(FALSE, Len(found.path), found.path)

\* PyHpoTerm::shortest_path_to_parent
shortest_path_to_parent(self, other) ==
    LET found == path_to_ancestor(self, other)
    IN  IF ~found.ok THEN ParentPath(TRUE, 0, <<>>)
        ELSE ParentPath(FALSE, Len(found.path), found.path)

\* PyHpoTerm::shortest_path_to_root
shortest_path_to_root(self, self_path) ==
    LET found == distance_to_ancestor(self, ROOT, self_path)
    IN  IF ~found.ok THEN [status |-> "Panic", out |-> <<>>]
        ELSE [status |-> "Ok", out |-> <<found.distance>>]

\* PyOntology::path
Ontology_path(query1, query2, self_path) ==
    LET t1 == term_from_query(query1)
        t2 == term_from_query(query2)
    IN  IF t1.status # "Ok" THEN [status |-> t1.status, out |-> <<>>]
        ELSE IF t2.status # "Ok" THEN [status |-> t2.status, out |-> <<>>]
        ELSE path_to_other(t1.id, t2.id, self_path)

\* a method of a term object, or a query of the ontology: it returns a
\* value or fails, and changes nothing
Answer(op, r, arg) ==
    /\ last' = Call(op, 0, r.status, r.out, arg, FALSE, 0)
    /\ UNCHANGED <<ONTOLOGY, heap, ref, stats>>

\* t.path_to_other(other), for terms obtained from the ontology
PathToOther(self, other) ==
    /\ built
    /\ \E self_path \in SelfPaths :
          Answer("path_to_other", path_to_other(self, other, self_path), <<self, other>>)

\* t.shortest_path_to_parent(other)
ShortestPathToParent(self, other) ==
    /\ built
    /\ Answer("shortest_path_to_parent",
              [status |-> "Ok", out |-> shortest_path_to_parent(self, other)],
              <<self, other>>)

\* t.shortest_path_to_root()
ShortestPathToRoot(self) ==
    /\ built
    /\ \E self_path \in SelfPaths :
          Answer("shortest_path_to_root", shortest_path_to_root(self, self_path), <<self>>)

\* Ontology.path(query1, query2)
OntologyPath(query1, query2) ==
    \E self_path \in SelfPaths :
        Answer("path", Ontology_path(query1, query2, self_path), <<query1, query2>>)

NextPaths ==
    \/ Ontology
    \/ \E q \in Queries : GetHpoObject(q)
    \/ /\ ~set_of(First).live
       /\ \E query \in Queries : FromQuery(query)
    \/ \E query1 \in Queries, query2 \in Queries : OntologyPath(query1, query2)
    \/ \E self \in TermIds, other \in TermIds : PathToOther(self, other)
    \/ \E self \in TermIds, other \in TermIds : ShortestPathToParent(self, other)
    \/ \E self \in TermIds : ShortestPathToRoot(self)

SpecPaths == Init /\ [][NextPaths]_vars

----------------------------------------------------------------------------
(* Properties *)

\* the members of the set behind a handle
Members(h) == Range(set_of(h).ids)

ConstructorOps ==
    {"HPOSet", "from_serialized", "from_queries", "BasicHPOSet",
     "BasicHPOSet.from_serialized", "HPOPhenoSet", "HPOPhenoSet.from_serialized"}

TransformOps == {"child_nodes", "remove_modifier", "replace_obsolete"}

\* the failures a caller can catch as an ordinary exception
TypedErrors ==
    {"NameError", "KeyError", "ValueError", "RuntimeError", "AttributeError",
     "NotImplementedError"}

S_7_118 == <<"7", "+", "1", "1", "8">>

S_118_7 == <<"1", "1", "8", "+", "7">>

\* C1: reading back what serialize() printed succeeds and gives a set with
\* the same members, for every set, the empty one included.
C1_RoundTrip ==
    (/\ last.op = "from_serialized"
     /\ set_of(Other(last.h)).live
     /\ last.arg = serialize(set_of(Other(last.h)).ids))
    => (/\ last.status = "Ok"
        /\ set_of(last.h).live
        /\ Members(last.h) = Members(Other(last.h)))

\* a string is the canonical form of a set of ids: nothing for the empty
\* set, else plain decimal numbers, strictly ascending, joined by "+", that
\* are exactly the members
IsCanonical(out, members) ==
    IF members = {} THEN out = <<>>
    ELSE LET pieces == split(out, "+")
         IN  /\ \A i \in 1..Len(pieces) :
                   /\ pieces[i] # <<>>
                   /\ \A j \in 1..Len(pieces[i]) : IsDigit(pieces[i][j])
                   /\ Len(pieces[i]) > 1 => pieces[i][1] # "0"
             /\ \A i \in 1..(Len(pieces) - 1) :
                   DigitsVal(pieces[i]) < DigitsVal(pieces[i + 1])
             /\ {DigitsVal(pieces[i]) : i \in 1..Len(pieces)} = members

\* C2: serialize() prints the members in strictly ascending order joined by
\* "+", whatever the order they were supplied in; "7+118" and "118+7" both
\* read back as a set of two members that prints as "7+118".
C2_Canonical ==
    /\ \A h \in Handles :
          set_of(h).live => IsCanonical(serialize(set_of(h).ids), Members(h))
    /\ last.op = "serialize" => IsCanonical(last.out, Members(last.h))
    /\ (built /\ last.op = "from_serialized" /\ last.arg \in {S_7_118, S_118_7})
       => (/\ last.status = "Ok"
           /\ Cardinality(Members(last.h)) = 2
           /\ Len(set_of(last.h).ids) = 2
           /\ serialize(set_of(last.h).ids) = S_7_118)

\* "118+7" was read and the set prints as "7+118"
C2_Witness ==
    /\ last.op = "from_serialized"
    /\ last.arg = S_118_7
    /\ last.status = "Ok"
    /\ serialize(set_of(last.h).ids) = S_7_118

\* C3: with the ontology built, every constructor that is given an id that
\* is no term fails with an exception the caller can catch, and makes no
\* set.
C3_UnknownIdIsTypedError ==
    (built /\ last.op \in ConstructorOps /\ last.unknown)
    => (last.status \in TypedErrors /\ ~set_of(last.h).live)

\* C4: with the ontology built, add() of an integer that is no term fails
\* with KeyError and changes no set; add() of a term or of the id of a term
\* succeeds, makes it a member and changes nothing else.
C4_Add ==
    [][\A h \in Handles :
          (built /\ last'.op = "add" /\ last'.h = h)
          => IF last'.unknown
             THEN /\ last'.status = "KeyError"
                  /\ heap' = heap /\ ref' = ref /\ built' = built
             ELSE /\ last'.status = "Ok"
                  /\ Range(set_of(h).ids)' = Members(h) \cup {last'.id}
                  /\ set_of(Other(h))' = set_of(Other(h))
                  /\ built' = built]_vars

\* add() of an unknown integer was refused on a set that has members
C4_Witness ==
    /\ built
    /\ last.op = "add"
    /\ last.unknown
    /\ last.status = "KeyError"
    /\ Members(last.h) # {}

\* C5: a transform leaves its receiver as it was, and an add() on one set
\* does not change what the other handle sees.
C5_ReceiverUnchanged ==
    [][\A h \in Handles :
          /\ (last'.op \in TransformOps /\ last'.h = h)
             => /\ set_of(h)' = set_of(h)
                /\ \A after \in {set_of(h).ids'} :
                      serialize(after) = serialize(set_of(h).ids)
          /\ (last'.op = "add" /\ last'.h = h)
             => set_of(Other(h))' = set_of(Other(h))]_vars

\* add() succeeded on one of two sets that differ
C5_Witness ==
    /\ last.op = "add"
    /\ last.status = "Ok"
    /\ set_of(1).live /\ set_of(2).live
    /\ Members(1) # Members(2)

\* C6: child_nodes is idempotent: applied to the set it returned, it
\* returns a set with the same members.
C6_Idempotent ==
    (last.op = "child_nodes" /\ last.status = "Ok")
    => (/\ child_nodes(set_of(Other(last.h)).ids).status = "Ok"
        /\ Range(child_nodes(set_of(Other(last.h)).ids).ids) = Members(Other(last.h)))

\* child_nodes returned a set from which it had dropped an ancestor
C6_Witness ==
    /\ last.op = "child_nodes"
    /\ last.status = "Ok"
    /\ Members(Other(last.h)) # {}
    /\ Members(Other(last.h)) # Members(last.h)

\* the terms below t in the ontology, found by walking the parent links up
\* from every term
Descendants(t) == {d \in TermIds : t \in all_parents(d)}

\* C7: child_nodes keeps a member exactly when no other member is one of
\* its descendants: the result is a subset of the receiver, holds no term
\* along with one of its ancestors, and is empty only for the empty set.
C7_MostSpecific ==
    (last.op = "child_nodes" /\ last.status = "Ok")
    => LET s == Members(last.h)
           r == Members(Other(last.h))
       IN  /\ r = {t \in s : (s \ {t}) \cap Descendants(t) = {}}
           /\ r \subseteq s
           /\ \A a \in r : \A b \in r : a \notin all_parents(b)
           /\ s # {} => r # {}

\* child_nodes ran on a set that held a term and its grandparent
C7_Witness ==
    /\ last.op = "child_nodes"
    /\ last.status = "Ok"
    /\ \E a \in Members(last.h) : \E b \in Members(last.h) :
          /\ a \in all_parents(b)
          /\ a \notin parent_ids(b)
          /\ a \notin Members(Other(last.h))
          /\ b \in Members(Other(last.h))

\* the calls that need an ontology
OntologyOps ==
    (ConstructorOps \ {"HPOSet"}) \cup TransformOps \cup
    {"hpo", "get_hpo_object", "similarity", "similarity_scores",
     "information_content", "batch_set_similarity", "batch_similarity",
     "enrichment", "batch_enrichment", "linkage"}

\* C10: while no ontology has been built, every call that needs one fails
\* with NameError and makes no set, whatever its arguments.
C10_NotInitialized ==
    (~built /\ last.op \in OntologyOps)
    => (/\ last.status = "NameError"
        /\ last.op \in ConstructorOps => ~set_of(last.h).live)

\* C11: once an ontology is installed, every further Ontology(...) call
\* succeeds whatever its arguments, and no call of any kind changes the
\* ontology installed.
C11_WriteOnce ==
    [][built => /\ ONTOLOGY' = ONTOLOGY
                /\ last'.op = "Ontology" => last'.status = "Ok"]_vars

\* Ontology(...) was called with a folder of other, good data after the
\* built-in ontology was installed
C11_Witness ==
    /\ last.op = "Ontology"
    /\ last.status = "Ok"
    /\ last.arg = <<"jax", TRUE, FALSE>>
    /\ ONTOLOGY = from_builtin

\* the errors Ontology(...) reports for input it cannot load
ConstructionErrors == {"FileNotFoundError", "RuntimeError"}

\* C12: a call of Ontology(...) whose input cannot be loaded fails with a
\* construction error the caller can catch and leaves the ontology unbuilt.
C12_FailFast ==
    (last.op = "Ontology" /\ last.unknown /\ ~built)
    => last.status \in ConstructionErrors

\* C13: a batch call returns a list as long as its input whose i-th element
\* is the result for the i-th input, in whatever order the threads of the
\* pool finished.
C13_BatchOrder ==
    batch.state = "returned"
    => /\ Len(batch.out) = Len(batch.items)
       /\ \A i \in 1..Len(batch.items) :
             batch.out[i] = return_item(batch.op, map_item(batch.op, batch.items[i]))

\* a batch returned whose second input was mapped before its first, the
\* two having different results
C13_Witness ==
    /\ batch.state = "returned"
    /\ Len(batch.items) = MaxBatch
    /\ batch.done[1] = 2
    /\ batch.items[1] # batch.items[2]

\* the p-values of a list of results never fall
Ascending(dicts) ==
    \A i, j \in 1..Len(dicts) : i < j => dicts[i].enrichment <= dicts[j].enrichment

\* no gene or disease has two results in the list
OnePerEntity(dicts) ==
    \A i, j \in 1..Len(dicts) : dicts[i].item = dicts[j].item => i = j

\* C17: the list EnrichmentModel.enrichment returns, and each per-set list
\* a batch enrichment call returns, is in ascending order of p-value and
\* has at most one result for each gene or disease.
C17_SortedByPValue ==
    /\ (last.op = "model.enrichment" /\ last.status = "Ok")
       => (Ascending(last.out) /\ OnePerEntity(last.out))
    /\ (batch.state = "returned" /\ batch.op \in EnrichmentBatchOps)
       => \A i \in 1..Len(batch.out) :
             Ascending(batch.out[i]) /\ OnePerEntity(batch.out[i])

\* an enrichment returned for a set whose results the library reported
\* with a larger p-value before a smaller one
C17_Witness ==
    /\ last.op = "model.enrichment"
    /\ last.status = "Ok"
    /\ Len(last.out) = MaxEnriched
    /\ \E i, j \in 1..Len(last.arg[2]) :
          i < j /\ last.arg[2][i].pvalue > last.arg[2][j].pvalue

\* C18: EnrichmentModel(category) with a category other than gene, omim and
\* orpha fails with KeyError and makes no model; with the ontology built,
\* enrichment with a method other than hypergeom fails with
\* NotImplementedError and returns no result.
C18_ClosedChoices ==
    /\ (last.op = "EnrichmentModel" /\ last.arg[1] \notin {"gene", "omim", "orpha"})
       => (last.status = "KeyError" /\ model = NoModel)
    /\ (last.op = "model.enrichment" /\ built /\ last.arg[1] # "hypergeom")
       => (last.status = "NotImplementedError" /\ last.out = <<>>)

\* a model of an unknown category was asked for and refused
C18_Witness ==
    /\ last.op = "EnrichmentModel"
    /\ last.arg = <<"nocategory">>
    /\ last.status = "KeyError"
    /\ model = NoModel

\* the calls that take the name of an algorithm
SelectionOps ==
    {"similarity", "similarity_scores", "batch_set_similarity", "batch_similarity",
     "linkage", "HPOTerm.similarity_score", "HPOTerm.similarity_scores"}

\* some name given to the call is outside the closed set of its family
OutsideClosedSet(names) ==
    \/ names.kind \notin {"omim", "orpha", "gene", "custom"}
    \/ names.method \notin {"resnik", "lin", "jc", "jc2", "rel", "ic", "graphic", "dist"}
    \/ /\ "combine" \in DOMAIN names
       /\ names.combine \notin {"funSimAvg", "funSimMax", "BMA"}
    \/ /\ "linkage" \in DOMAIN names
       /\ names.linkage \notin {"single", "union", "complete", "average"}

\* C14: a similarity, similarity_scores, batch or linkage call that is given
\* a name outside the closed set of methods, combiners, linkage methods or
\* information-content kinds fails with an error the caller can catch and
\* never succeeds with some other algorithm.
C14_ClosedSelection ==
    (last.op \in SelectionOps /\ OutsideClosedSet(last.arg))
    => (last.status \in TypedErrors /\ last.out = <<>>)

\* linkage was asked, with the ontology built, for a linkage method that
\* does not exist, every other name being a known one
C14_Witness ==
    /\ built
    /\ last.op = "linkage"
    /\ last.arg = [linkage |-> "nolinkage", kind |-> "omim", method |-> "graphic",
                   combine |-> "funSimAvg"]
    /\ last.status = "RuntimeError"

\* the records a linkage call returned, as the caller sees them
Records == last.out

\* the call the caller made last was a linkage, and it has returned
LinkageReturned == last.op = "linkage" /\ last.status = "Ok" /\ res.state = "returned"

\* C15: a linkage call on N sets comes to an end, and then it has returned
\* N-1 records, the last of which counts N members.
C15_LinkageSize ==
    /\ [](LinkageReturned
            => /\ Len(Records) = res.n - 1
               /\ (res.n > 1 => Records[Len(Records)][4] = res.n))
    /\ (res.state = "running" ~> res.state = "returned")

\* a linkage of as many sets as the caller may pass has returned
C15_Witness ==
    /\ LinkageReturned
    /\ res.n = MaxSets
    /\ Len(Records) = MaxSets - 1

\* the member count of cluster id, given the records before its own
RECURSIVE Count(_, _, _)
Count(id, n, records) ==
    IF id < n THEN 1
    ELSE Count(records[id - n + 1][1], n, records) + Count(records[id - n + 1][2], n, records)

\* C16: the k-th record (k from 0) of a linkage of N sets forms cluster
\* N+k from two different clusters with smaller ids, no id is an input of
\* two records, and the record's member count is the sum of the member
\* counts of its inputs, an input set counting 1.
C16_ClusterIds ==
    LinkageReturned
    => /\ \A k \in 1..Len(Records) :
             /\ Records[k][1] # Records[k][2]
             /\ Records[k][1] \in 0..(res.n + k - 2)
             /\ Records[k][2] \in 0..(res.n + k - 2)
             /\ Records[k][4] = Count(res.n + k - 1, res.n, Records)
       /\ \A k, l \in 1..Len(Records) :
             {Records[k][1], Records[k][2]} \cap {Records[l][1], Records[l][2]} # {}
             => k = l

\* a linkage returned whose last record merges two clusters formed by
\* earlier records
C16_Witness ==
    /\ LinkageReturned
    /\ res.n = MaxSets
    /\ Records[Len(Records)][1] >= res.n
    /\ Records[Len(Records)][2] >= res.n

\* C19: two terms, two genes or two diseases of one class are equal exactly
\* when their ids are equal, whatever their names; the hash of an object is
\* its id, so equal objects have equal hashes; and <, <=, > and >= between
\* them always fail with TypeError.
C19_IdentityIsId ==
    /\ last.op = "__richcmp__"
       => LET a == last.arg[1]
              b == last.arg[2]
              op == last.arg[3]
          IN  /\ op = "==" => (last.status = "Ok" /\ last.out = <<a.id = b.id>>)
              /\ op = "!=" => (last.status = "Ok" /\ last.out = <<a.id # b.id>>)
              /\ op \in {"<", "<=", ">", ">="}
                 => (last.status = "TypeError" /\ last.out = <<>>)
    /\ last.op = "__hash__"
       => /\ last.out[1] = last.arg[1].id
          /\ last.arg[1].id = last.arg[2].id => last.out[1] = last.out[2]

\* two objects with one id and different names were compared with ==
C19_Witness ==
    /\ last.op = "__richcmp__"
    /\ last.arg[3] = "=="
    /\ last.arg[1].id = last.arg[2].id
    /\ last.arg[1].name # last.arg[2].name
    /\ last.out = <<TRUE>>

\* C20: every HPOSet that exists, however it was constructed, added to or
\* transformed, holds no id twice and only ids of terms of the ontology, so
\* its length is the number of its distinct members and terms() and
\* toJSON() succeed on it.
C20_SetValidity ==
    \A h \in Handles :
        set_of(h).live
        => LET ids == set_of(h).ids
           IN  /\ \A i, j \in 1..Len(ids) : ids[i] = ids[j] => i = j
               /\ \A i \in 1..Len(ids) : built /\ ids[i] \in TermIds
               /\ Len(ids) = Cardinality(Range(ids))
               /\ PyHpoSet_terms(ids) = "Ok"
               /\ PyHpoSet_toJSON(ids) = "Ok"

\* an add succeeded on a set that now holds as many members as a set may,
\* while a second set exists
C20_Witness ==
    /\ last.op = "add"
    /\ last.status = "Ok"
    /\ Len(set_of(last.h).ids) = MaxSetLen
    /\ \E h \in Handles : set_of(h).live /\ ref[h] # ref[last.h]

\* C21: with the ontology built, replace_obsolete succeeds on every set,
\* the set it returns holds no obsolete term and holds every member of the
\* receiver that is not obsolete; an obsolete member without replacement is
\* left out without an error.
C21_NoObsolete ==
    (last.op = "replace_obsolete" /\ built)
    => /\ last.status = "Ok"
       /\ \A m \in Members(Other(last.h)) : ~is_obsolete(m)
       /\ \A m \in Members(last.h) : ~is_obsolete(m) => m \in Members(Other(last.h))

\* replace_obsolete was called on a set of a current term and an obsolete
\* term that has no replacement
C21_Witness ==
    /\ last.op = "replace_obsolete"
    /\ last.status = "Ok"
    /\ \E m \in Members(last.h) : is_obsolete(m) /\ replaced_by(m) = 0
    /\ \E m \in Members(last.h) : ~is_obsolete(m)
    /\ Members(Other(last.h)) = {m \in Members(last.h) : ~is_obsolete(m)}

\* the terms a query names: by its integer, by its "HP:" string, or by its name
Named(q) ==
    IF q.t = "Id" THEN {t \in TermIds : t = q.v}
    ELSE IF starts_with(q.s, "HP:")
    THEN {t \in TermIds : HpoTermId_try_from(q.s).ok /\ t = HpoTermId_try_from(q.s).val}
    ELSE {t \in TermIds : name(t) = q.s}

Malformed(q) == q.t = "Str" /\ starts_with(q.s, "HP:") /\ ~HpoTermId_try_from(q.s).ok

\* the error class the lookup of one query is said to end in
LookupClass(q) ==
    IF ~built THEN "NameError"
    ELSE IF Malformed(q) THEN "ValueError"
    ELSE IF Named(q) = {} THEN "RuntimeError"
    ELSE "Ok"

\* C22: a lookup by query ends in the error class of its case, for every
\* form of query: NameError while no ontology is built, and with an ontology
\* ValueError for a malformed "HP:" string and RuntimeError for a query that
\* names no term; this for get_hpo_object, for from_queries of one query and
\* for the first query of path
C22_ErrorClasses ==
    /\ last.op = "get_hpo_object" => last.status = LookupClass(last.arg[1])
    /\ (last.op = "from_queries" /\ Len(last.arg) = 1)
          => last.status = LookupClass(last.arg[1])
    /\ (last.op = "path" /\ LookupClass(last.arg[1]) # "Ok")
          => last.status = LookupClass(last.arg[1])

\* the same with an ontology built only
C22_BuiltClasses == built => C22_ErrorClasses

C22_BuiltWitness ==
    /\ built /\ last.op = "path"
    /\ Malformed(last.arg[1]) /\ last.status = "ValueError"

\* every term of the chain is a parent of the one before it, self first
IsChainUp(self, path) ==
    \A i \in 1..Len(path) :
        path[i] \in parent_ids(IF i = 1 THEN self ELSE path[i - 1])

\* C24: shortest_path_to_parent(other) returns, when other is an ancestor of
\* self, the ordered chain of parents from self up to other, which ends with
\* other, and a finite distance equal to the number of terms of the chain;
\* when other is no ancestor of self it returns the distance Inf and the
\* empty list
C24_PathToParent ==
    last.op = "shortest_path_to_parent"
    => LET self == last.arg[1]
           other == last.arg[2]
           r == last.out
       IN  /\ last.status = "Ok"
           /\ IF other \in all_parents(self)
              THEN /\ ~r.inf
                   /\ r.distance = Len(r.path)
                   /\ r.distance >= 1
                   /\ r.path[Len(r.path)] = other
                   /\ IsChainUp(self, r.path)
              ELSE r.inf /\ r.path = <<>>

C24_Witness ==
    /\ last.op = "shortest_path_to_parent"
    /\ last.arg = <<152, ROOT>>
    /\ last.out = ParentPath(FALSE, 2, <<PHENOTYPIC_ABNORMALITY, ROOT>>)

\* C25: shortest_path_to_root returns a number for every term of the
\* ontology, obsolete terms included: 0 for the root, the least number of
\* edges up to the root for a term below it, and it never ends in a panic
C25_PathToRoot ==
    last.op = "shortest_path_to_root"
    => LET self == last.arg[1]
       IN  /\ last.status = "Ok"
           /\ self = ROOT => last.out = <<0>>
           /\ ROOT \in all_parents(self) => last.out = <<Len(chain(self, ROOT))>>

\* the same for the terms below the root only
C25_BelowRoot ==
    (last.op = "shortest_path_to_root" /\ ROOT \in all_parents(last.arg[1]))
    => last.status = "Ok" /\ last.out = <<Len(chain(last.arg[1], ROOT))>>

\* an obsolete term always ends in the panic
C25_ObsoletePanics ==
    (last.op = "shortest_path_to_root" /\ is_obsolete(last.arg[1]))
    => last.status = "Panic"

IsPrefix(p, q) == Len(p) <= Len(q) /\ p = SubSeq(q, 1, Len(p))

\* C26: an iterator yields the members its set (or the ontology) had when
\* the iterator was made, each once and in order, and it ends after exactly
\* as many steps as len() was at that moment; this for each iterator apart
\* from the other, and whatever is added to the set afterwards
C26_Iteration ==
    \A i \in IterNames :
        iters[i].live
        => /\ IsPrefix(iters[i].yielded, iters[i].members)
           /\ iters[i].yielded \o iters[i].ids = iters[i].members
           /\ Cardinality(Range(iters[i].yielded)) = Len(iters[i].yielded)
           /\ iters[i].done => /\ iters[i].yielded = iters[i].members
                               /\ Len(iters[i].yielded) = iters[i].len
           /\ (last.op = "next" /\ last.id = i) => last.status \in {"Ok", "StopIteration"}

\* a set was iterated to its end after it had grown, while a second
\* iterator made after the growth is on its way
C26_Witness ==
    /\ iters[1].live /\ iters[1].done /\ iters[1].len = 1
    /\ Len(set_of(First).ids) = 2
    /\ iters[1].members # set_of(First).ids
    /\ iters[2].live /\ ~iters[2].done
    /\ iters[2].members = set_of(First).ids
    /\ Len(iters[2].yielded) = 1

BasicOps == {"BasicHPOSet", "BasicHPOSet.from_serialized"}

\* C27: a BasicHPOSet is fully normalised for every input: it holds no
\* obsolete term, no modifier term, and no term together with one of its
\* ancestors
C27_Normalised ==
    (last.op \in BasicOps /\ last.status = "Ok")
    => \A m \in Members(last.h) :
          /\ ~is_obsolete(m)
          /\ (all_parents(m) \cup {m}) \cap ModifierRoots = {}
          /\ all_parents(m) \cap Members(last.h) = {}

\* the same without the ancestors
C27_NoObsoleteNoModifier ==
    (last.op \in BasicOps /\ last.status = "Ok")
    => \A m \in Members(last.h) :
          /\ ~is_obsolete(m)
          /\ (all_parents(m) \cup {m}) \cap ModifierRoots = {}

\* what the single call returns for one element of a batch: the score that
\* similarity or similarity_score computes for the comparison, or the list
\* that EnrichmentModel.enrichment("hypergeom", set) returns for the set
single_call(op, item) ==
    IF op \in EnrichmentBatchOps
    THEN PyEnrichmentModel_enrichment("hypergeom", item).out
    ELSE [score_of |-> item]

BriefKeys == {"name", "id", "int"}

\* C30: the dict of a member t in s.toJSON(verbose) agrees with
\* t.toJSON(verbose): the same name, id and int, with verbose = True the
\* same gene, omim and orpha information content, and with verbose = False
\* exactly the keys name, id and int in both
C30_JsonAgrees ==
    (last.op = "HPOSet.toJSON" /\ last.status = "Ok")
    => LET ids == set_of(last.h).ids
           verbose == last.arg[1]
       IN  /\ Len(last.out) = Len(ids)
           /\ \A i \in 1..Len(ids) :
                LET d == last.out[i]
                    t == PyHpoTerm_toJSON(ids[i], verbose)
                IN  /\ \A k \in BriefKeys : d[k] = t[k]
                    /\ IF verbose
                       THEN \A k \in {"gene", "omim", "orpha"} : d.ic[k] = t.ic[k]
                       ELSE DOMAIN d = BriefKeys /\ DOMAIN t = BriefKeys

\* the same but for the orpha information content
C30_AgreesButOrpha ==
    (last.op = "HPOSet.toJSON" /\ last.status = "Ok")
    => LET ids == set_of(last.h).ids
           verbose == last.arg[1]
       IN  /\ Len(last.out) = Len(ids)
           /\ \A i \in 1..Len(ids) :
                LET d == last.out[i]
                    t == PyHpoTerm_toJSON(ids[i], verbose)
                IN  /\ \A k \in BriefKeys : d[k] = t[k]
                    /\ IF verbose
                       THEN \A k \in {"gene", "omim"} : d.ic[k] = t.ic[k]
                       ELSE DOMAIN d = BriefKeys /\ DOMAIN t = BriefKeys
====
